---- MODULE Spec2Model ----
(***************************************************************************)
(* A model of tsukkomi.typed (src/tsukkomi/typed.py): the runtime type     *)
(* checker check_type / check_callable / check_arguments / check_return    *)
(* and the typechecked decorator.                                          *)
(*                                                                         *)
(* The program is synchronous.  Its state is the heap that outlives a call *)
(* (every function object's __annotations__ table and a counter that every *)
(* executed function body increments) and the frame of the invocation in   *)
(* progress.  Invoke is one whole call of a wrapped callable, lines        *)
(* 119-125; CallCheckCallable is one direct call of check_callable; Unwind *)
(* is the caller taking the outcome, which ends the frame's lifetime.      *)
(***************************************************************************)
EXTENDS Integers, Sequences, FiniteSets, TLC

VARIABLES annotations, counter, prev, pc, frame

vars == <<annotations, counter, prev, pc, frame>>

(* Bounds of the model. *)
MaxCalls == 2
MaxKw == 1
MaxHintArgs == 2

(***************************************************************************)
(* Type descriptions (the objects found in annotations).                   *)
(***************************************************************************)
Simple(n) == [tag |-> "simple", name |-> n]

CallableT(as, r) == [tag |-> "callable", args |-> as, result |-> r]

StrT == Simple("str")
IntT == Simple("int")
BoolT == Simple("bool")
\* type(None), the default of hints.pop('return', type(None)), line 61
NoneType == Simple("NoneType")
\* inspect.Parameter.empty, the annotation of a parameter that has none
Empty == Simple("empty")
NoType == Simple("-")

StrToBool == CallableT(<<StrT>>, BoolT)

(***************************************************************************)
(* Runtime values.                                                         *)
(***************************************************************************)
Val(t, i) == [ty |-> t, id |-> i]

HelloWorld == Val("str", "hello world")
Twice == Val("str", "twice")
Three == Val("int", "3")
One == Val("int", "1")
Pi == Val("float", "3.14")
PyTrue == Val("bool", "True")
PyFalse == Val("bool", "False")
PyNone == Val("NoneType", "None")
Fn(name) == Val("function", name)
NoValue == Val("-", "-")

\* type(value).__mro__ : bool is a subclass of int
Mro(ty) == IF ty = "bool" THEN {"bool", "int", "object"} ELSE {ty, "object"}

\* isinstance(value, hint) for a class hint, line 26
isinstance(value, hint) == hint.name \in Mro(value.ty)

(***************************************************************************)
(* The callables of the model: the two of the docstring (lines 100-107)    *)
(* and callables that exercise the other paths of the checker.             *)
(*   def foobar(x: str) -> bool: return x == 'hello world'                 *)
(*   def hello_world(foo: str, bar: Callable[[str], bool]) -> bool:        *)
(*       return bar(foo)                                                   *)
(*   def tostr(s: str) -> str: return s                                    *)
(*   def isodd(n: int) -> bool: return n % 2                               *)
(*   def boom(n: int, why) -> int: raise ValueError                        *)
(*   def untyped(x): pass                                                  *)
(*   def repeat(s: str, times: int = 'twice') -> str: return s             *)
(*   def mixed(bar: Callable[[str], bool], foo: str, n: int) -> bool:      *)
(*       return bar(foo)                                                   *)
(***************************************************************************)
FuncNames == {"foobar", "hello_world", "tostr", "isodd", "boom", "untyped",
              "repeat", "mixed"}

Param(n) == [name |-> n, has_default |-> FALSE, default |-> NoValue]

ParamDefault(n, d) == [name |-> n, has_default |-> TRUE, default |-> d]

\* the formal parameter list of each callable (inspect.signature(c).parameters)
Params(c) ==
    CASE c = "foobar" -> <<Param("x")>>
      [] c = "hello_world" -> <<Param("foo"), Param("bar")>>
      [] c = "tostr" -> <<Param("s")>>
      [] c = "isodd" -> <<Param("n")>>
      [] c = "boom" -> <<Param("n"), Param("why")>>
      [] c = "untyped" -> <<Param("x")>>
      [] c = "repeat" -> <<Param("s"), ParamDefault("times", Twice)>>
      [] c = "mixed" -> <<Param("bar"), Param("foo"), Param("n")>>

ParamNames(c) == {Params(c)[i].name : i \in 1..Len(Params(c))}

\* c.__annotations__ of each callable as the program starts: a table from
\* parameter names, and "return", to type descriptions
NoAnnotations == [n \in {} |-> NoType]

InitAnnotations ==
    [c \in FuncNames |->
        CASE c = "foobar" -> [x |-> StrT, return |-> BoolT]
          [] c = "hello_world" ->
               [foo |-> StrT, bar |-> StrToBool, return |-> BoolT]
          [] c = "tostr" -> [s |-> StrT, return |-> StrT]
          [] c = "isodd" -> [n |-> IntT, return |-> BoolT]
          [] c = "boom" -> [n |-> IntT, return |-> IntT]
          [] c = "untyped" -> NoAnnotations
          [] c = "repeat" -> [s |-> StrT, times |-> IntT, return |-> StrT]
          [] c = "mixed" ->
               [bar |-> StrToBool, foo |-> StrT, n |-> IntT, return |-> BoolT]]

EmptyMap == [n \in {} |-> NoValue]

Restrict(f, D) == [n \in D |-> f[n]]

(***************************************************************************)
(* Reflection: typing.get_type_hints and inspect.signature.                *)
(***************************************************************************)
\* typing.get_type_hints(c): a NEW dict built from c.__annotations__
get_type_hints(heap, c) == heap[c]

\* the parameters ps with their annotations in table
Parameters(ps, table) ==
    [i \in 1..Len(ps) |->
        [name |-> ps[i].name,
         annotation |-> IF ps[i].name \in DOMAIN table THEN table[ps[i].name]
                        ELSE Empty,
         has_default |-> ps[i].has_default,
         default |-> ps[i].default]]

\* inspect.signature(c).parameters
signature(heap, c) == Parameters(Params(c), heap[c])

\* Python objects that == compares: a tuple by its items, any other pair of
\* objects (a generator has no __eq__) by identity
Tuple(items) == [kind |-> "tuple", oid |-> "-", items |-> items]

Generator(oid, items) == [kind |-> "generator", oid |-> oid, items |-> items]

\* a == b
PyEq(a, b) ==
    IF a.kind = "tuple" /\ b.kind = "tuple" THEN a.items = b.items
    ELSE a.kind = b.kind /\ a.oid = b.oid

\* the outcome of a matcher: (actual_type, correct), or the error it raised,
\* and the heap it leaves
Match(actual_type, correct, heap) ==
    [exc |-> "none", actual_type |-> actual_type, correct |-> correct,
     heap |-> heap]

MatchRaised(exc, heap) ==
    [exc |-> exc, actual_type |-> NoType, correct |-> FALSE, heap |-> heap]

(***************************************************************************)
(* check_callable, lines 51-65.  A value that is no function has neither   *)
(* __code__ nor __annotations__: typing.get_type_hints (line 60) raises    *)
(* AttributeError for it before anything is compared.                      *)
(***************************************************************************)
\* hints.pop('return', type(None)), line 61; hints is check_callable's own
\* dict, so the pop changes nothing that outlives the call
pop_return(hints) == IF "return" \in DOMAIN hints THEN hints["return"]
                     ELSE NoneType

\* the generator expression of line 63
arg_types(sig) ==
    Generator("arg_types", [i \in 1..Len(sig) |-> sig[i].annotation])

\* lines 64-65
compare_callable(heap, hint, return_type, args) ==
    Match(CallableT(args.items, return_type),
          PyEq(Tuple(hint.args), args) /\ hint.result = return_type,
          heap)

\* check_callable popping 'return' from the callable's own __annotations__
check_callable_shared(heap, callable_, hint) ==
    IF callable_.ty # "function" THEN MatchRaised("AttributeError", heap)
    ELSE compare_callable(
             [heap EXCEPT ![callable_.id] = Restrict(@, DOMAIN @ \ {"return"})],
             hint,
             pop_return(heap[callable_.id]),
             arg_types(signature(heap, callable_.id)))

check_callable(heap, callable_, hint) ==
    IF callable_.ty # "function" THEN MatchRaised("AttributeError", heap)
    ELSE compare_callable(heap, hint,
                          pop_return(get_type_hints(heap, callable_.id)),
                          arg_types(signature(heap, callable_.id)))

(***************************************************************************)
(* check_type, lines 16-28.                                                *)
(***************************************************************************)
check_type(heap, value, hint) ==
    IF hint.tag = "callable" THEN check_callable(heap, value, hint)
    ELSE Match(Simple(value.ty), isinstance(value, hint), heap)

(***************************************************************************)
(* signature.bind of the call's arguments, line 79: positional arguments   *)
(* fill the parameters left to right, keyword arguments fill by name; a    *)
(* parameter left unfilled is NOT in bound.arguments, whether it has a     *)
(* default or not (apply_defaults is never called).                        *)
(***************************************************************************)
bind(sig, args, kwargs) ==
    LET n == Len(sig)
        supplied(i) == i <= Len(args) \/ sig[i].name \in DOMAIN kwargs
        idx == SelectSeq([i \in 1..n |-> i], supplied)
        failed ==
            \/ Len(args) > n
            \/ \E i \in 1..n : i <= Len(args) /\ sig[i].name \in DOMAIN kwargs
            \/ \E i \in 1..n : ~supplied(i) /\ ~sig[i].has_default
            \/ \E k \in DOMAIN kwargs : \A i \in 1..n : sig[i].name # k
    IN  [ok |-> ~failed,
         arguments |->
            IF failed THEN <<>>
            ELSE [j \in 1..Len(idx) |->
                    [name |-> sig[idx[j]].name,
                     value |-> IF idx[j] <= Len(args) THEN args[idx[j]]
                               ELSE kwargs[sig[idx[j]].name]]]]

\* the outcome of check_arguments / check_return: the error raised ("none"
\* when the check passes), what the error reports, the parameters handed to
\* check_type, and the heap
Checked(exc, origin, param, observed, expected, matched, heap) ==
    [exc |-> exc, origin |-> origin, param |-> param, observed |-> observed,
     expected |-> expected, matched |-> matched, heap |-> heap]

(***************************************************************************)
(* check_arguments, lines 68-90.  check_arguments_loop is the loop of      *)
(* lines 80-90 from the i-th bound argument on; check_argument is lines    *)
(* 85-90 for the match m of line 84.                                       *)
(***************************************************************************)
RECURSIVE check_arguments_loop(_, _, _, _, _)
check_argument(hints, arguments, i, seen, m) ==
    IF m.exc # "none"
    THEN Checked(m.exc, "get_type_hints", "-", NoType, NoType, seen, m.heap)
    ELSE IF ~m.correct
    THEN Checked("TypeError", "check_arguments", arguments[i].name,
                 m.actual_type, hints[arguments[i].name], seen, m.heap)
    ELSE check_arguments_loop(m.heap, hints, arguments, i + 1, seen)

\* the loop taking a missing hint for "expects None"
check_arguments_loop_none(heap, hints, arguments, i, matched) ==
    IF i > Len(arguments)
    THEN Checked("none", "-", "-", NoType, NoType, matched, heap)
    ELSE check_argument(
             [n \in DOMAIN hints \cup {arguments[i].name} |->
                 IF n \in DOMAIN hints THEN hints[n] ELSE NoneType],
             arguments, i, Append(matched, arguments[i].name),
             check_type(heap, arguments[i].value,
                        IF arguments[i].name \in DOMAIN hints
                        THEN hints[arguments[i].name] ELSE NoneType))

check_arguments_loop(heap, hints, arguments, i, matched) ==
    IF i > Len(arguments)
    THEN Checked("none", "-", "-", NoType, NoType, matched, heap)
    ELSE IF arguments[i].name \notin DOMAIN hints
    THEN check_arguments_loop(heap, hints, arguments, i + 1, matched)
    ELSE check_argument(hints, arguments, i,
                        Append(matched, arguments[i].name),
                        check_type(heap, arguments[i].value,
                                   hints[arguments[i].name]))

\* lines 80-90 for the bound of line 79
check_bound(heap, hints, bound) ==
    IF ~bound.ok
    THEN Checked("TypeError", "bind", "-", NoType, NoType, <<>>, heap)
    ELSE check_arguments_loop(heap, hints, bound.arguments, 1, <<>>)

check_arguments(heap, c, hints, args, kwargs) ==
    check_bound(heap, hints, bind(signature(heap, c), args, kwargs))

(***************************************************************************)
(* check_return, lines 31-48.  hints['return'] (line 42) raises KeyError   *)
(* when the callable declares no return type.  The verdict of check_type   *)
(* is bound to `checks`; the test of line 43 reads `correct`, which is     *)
(* still the True of line 41.                                              *)
(***************************************************************************)
\* lines 41 and 43-48 for the match m of line 42
check_returned(callable_name, r, hints, m) ==
    LET correct == TRUE
        checks == m.correct
    IN  IF m.exc # "none"
        THEN Checked(m.exc, "get_type_hints", "-", NoType, NoType,
                     <<"return">>, m.heap)
        ELSE IF ~correct
        THEN Checked("TypeError", "check_return", callable_name,
                     Simple(r.ty), hints["return"], <<"return">>, m.heap)
        ELSE Checked("none", "-", "-", NoType, NoType, <<"return">>, m.heap)

check_return(heap, callable_name, r, hints) ==
    IF "return" \notin DOMAIN hints
    THEN Checked("KeyError", "check_return", "-", NoType, NoType, <<>>, heap)
    ELSE check_returned(callable_name, r, hints,
                        check_type(heap, r, hints["return"]))

(***************************************************************************)
(* The call of line 123 and the decorator of lines 119-125.  The function  *)
(* values of the model are the typechecked callables, so a body that calls *)
(* one of its arguments enters decorator again.                            *)
(***************************************************************************)
Err(exc, origin, param, observed, expected) ==
    [exc |-> exc, origin |-> origin, param |-> param, observed |-> observed,
     expected |-> expected]

NoErr == Err("none", "-", "-", NoType, NoType)

ErrOf(ch) == Err(ch.exc, ch.origin, ch.param, ch.observed, ch.expected)

\* what the call of line 123 did: nothing yet, returned value, or raised err
NoBody == [kind |-> "none", value |-> NoValue, err |-> NoErr]

BodyOf(b) == [kind |-> b.kind, value |-> b.value, err |-> b.err]

\* what one invocation of a wrapped callable did: it returned value or raised
\* err, at the line named by phase; the parameters handed to check_type, what
\* the call of line 123 did, how many bodies ran, whether check_return ran
Outcome(kind, value, err, phase, matched, body, runs, return_checked, heap) ==
    [kind |-> kind, value |-> value, err |-> err, phase |-> phase,
     matched |-> matched, body |-> body, runs |-> runs,
     return_checked |-> return_checked, heap |-> heap]

\* the value the call of line 123 binds to the i-th parameter: Python's own
\* binding, in which a default fills what the call leaves unfilled
Bound(ps, i, args, kwargs) ==
    IF i <= Len(args) THEN args[i]
    ELSE IF ps[i].name \in DOMAIN kwargs THEN kwargs[ps[i].name]
    ELSE ps[i].default

Position(ps, n) == CHOOSE j \in 1..Len(ps) : ps[j].name = n

CallEnv(c, args, kwargs) ==
    [n \in ParamNames(c) |->
        Bound(Params(c), Position(Params(c), n), args, kwargs)]

BodyReturn(value, heap) ==
    [kind |-> "return", value |-> value, err |-> NoErr, runs |-> 1,
     heap |-> heap]

BodyRaise(exc, heap) ==
    [kind |-> "raise", value |-> NoValue,
     err |-> Err(exc, "body", "-", NoType, NoType), runs |-> 1, heap |-> heap]

RECURSIVE decorator(_, _, _, _)
RECURSIVE Body(_, _, _)

\* the caller's body has run once more than the call o it made
Nested(o) ==
    [kind |-> o.kind, value |-> o.value, err |-> o.err, runs |-> 1 + o.runs,
     heap |-> o.heap]

\* bar(foo) in a body
CallArgument(heap, bar, foo) ==
    IF bar.ty # "function" THEN BodyRaise("TypeError", heap)
    ELSE Nested(decorator(heap, bar.id, <<foo>>, EmptyMap))

\* n % 2
Mod2(n, heap) ==
    IF "int" \in Mro(n.ty) THEN BodyReturn(One, heap)
    ELSE IF n.ty = "float" THEN BodyReturn(Val("float", "1.14"), heap)
    ELSE BodyRaise("TypeError", heap)

\* the bodies of the callables, each of which increments the counter once
Body(heap, c, env) ==
    CASE c = "foobar" ->
           BodyReturn(IF env["x"] = HelloWorld THEN PyTrue ELSE PyFalse, heap)
      [] c \in {"hello_world", "mixed"} ->
           CallArgument(heap, env["bar"], env["foo"])
      [] c \in {"tostr", "repeat"} -> BodyReturn(env["s"], heap)
      [] c = "isodd" -> Mod2(env["n"], heap)
      [] c = "boom" -> BodyRaise("ValueError", heap)
      [] c = "untyped" -> BodyReturn(PyNone, heap)

\* line 125, after the check_return r of line 124
decorator_return(a, b, r) ==
    IF r.exc # "none"
    THEN Outcome("raise", NoValue, ErrOf(r), "check_return", a.matched,
                 BodyOf(b), b.runs, TRUE, r.heap)
    ELSE Outcome("return", b.value, NoErr, "return", a.matched, BodyOf(b),
                 b.runs, TRUE, r.heap)

\* the decorator reporting an error of the callable as a mismatch of its own
decorator_result_wrapping(c, hints, a, b) ==
    IF b.kind = "raise"
    THEN Outcome("raise", NoValue,
                 Err("TypeError", "check_return", c, NoType, NoType),
                 "check_return", a.matched, BodyOf(b), b.runs, TRUE, b.heap)
    ELSE decorator_return(a, b, check_return(b.heap, c, b.value, hints))

\* lines 124-125, after the call b of line 123
decorator_result(c, hints, a, b) ==
    IF b.kind = "raise"
    THEN Outcome("raise", NoValue, b.err, "call", a.matched, BodyOf(b),
                 b.runs, FALSE, b.heap)
    ELSE decorator_return(a, b, check_return(b.heap, c, b.value, hints))

\* lines 123-125, after the check_arguments a of line 122
decorator_call(c, args, kwargs, hints, a) ==
    IF a.exc # "none"
    THEN Outcome("raise", NoValue, ErrOf(a), "check_arguments", a.matched,
                 NoBody, 0, FALSE, a.heap)
    ELSE decorator_result(c, hints, a,
                          Body(a.heap, c, CallEnv(c, args, kwargs)))

\* lines 122-125 with the hints of line 121
decorator_checked(heap, c, args, kwargs, hints) ==
    decorator_call(c, args, kwargs, hints,
                   check_arguments(heap, c, hints, args, kwargs))

decorator(heap, c, args, kwargs) ==
    decorator_checked(heap, c, args, kwargs, get_type_hints(heap, c))

(***************************************************************************)
(* The inputs.                                                             *)
(***************************************************************************)
ArgValues == {HelloWorld, Pi, Three, Fn("foobar"), Fn("tostr")}

ArgTuples(c) == UNION {[1..k -> ArgValues] : k \in 0..Len(Params(c))}

\* the parameters a keyword argument may name after the positional args: the
\* ones left unfilled, and the last one filled (which signature.bind rejects)
KwNames(c, args) ==
    {Params(c)[i].name : i \in {j \in 1..Len(Params(c)) : j >= Len(args)}}

Kwargs(c, args) ==
    UNION {[K -> ArgValues] :
             K \in {K \in SUBSET KwNames(c, args) : Cardinality(K) <= MaxKw}}

HintTypes == {StrT, IntT, BoolT}

CallableHints ==
    {CallableT(as, r) :
        as \in UNION {[1..k -> HintTypes] : k \in 0..MaxHintArgs},
        r \in HintTypes}

Candidates == {Fn(c) : c \in FuncNames} \cup {Pi}

(***************************************************************************)
(* The state machine.                                                      *)
(***************************************************************************)
NoFrame == [op |-> "none"]

Init ==
    /\ annotations = InitAnnotations
    /\ counter = 0
    /\ prev = "none"
    /\ pc = "idle"
    /\ frame = NoFrame

\* the outcome o of the call lands in the frame and the heap
Invoked(c, args, kwargs, o) ==
    /\ frame' = [op |-> "decorator", c |-> c, args |-> args, kwargs |-> kwargs,
                 kind |-> o.kind, value |-> o.value, err |-> o.err,
                 phase |-> o.phase, matched |-> o.matched, body |-> o.body,
                 runs |-> o.runs, return_checked |-> o.return_checked]
    /\ annotations' = o.heap
    /\ counter' = counter + o.runs

Matched(callable_, hint, m) ==
    /\ frame' = [op |-> "check_callable", callable_ |-> callable_,
                 hint |-> hint, exc |-> m.exc, actual_type |-> m.actual_type,
                 correct |-> m.correct]
    /\ annotations' = m.heap

\* one call of the wrapped callable c, lines 119-125
Invoke(c, args, kwargs) ==
    /\ pc = "idle"
    /\ counter < MaxCalls
    /\ Invoked(c, args, kwargs, decorator(annotations, c, args, kwargs))
    /\ pc' = "done"
    /\ UNCHANGED prev

\* one direct call check_callable(callable_, hint), lines 51-65
CallCheckCallable(callable_, hint) ==
    /\ pc = "idle"
    /\ Matched(callable_, hint, check_callable(annotations, callable_, hint))
    /\ pc' = "done"
    /\ UNCHANGED <<counter, prev>>

\* the caller has the outcome: the frame is gone, the heap stays
Unwind ==
    /\ pc = "done"
    /\ pc' = "idle"
    /\ frame' = NoFrame
    /\ prev' = IF frame.op = "decorator" THEN frame.kind ELSE prev
    /\ UNCHANGED <<annotations, counter>>

Next ==
    \/ \E c \in FuncNames : \E args \in ArgTuples(c) :
          \E kwargs \in Kwargs(c, args) :
          Invoke(c, args, kwargs)
    \/ \E callable_ \in Candidates : \E hint \in CallableHints :
          CallCheckCallable(callable_, hint)
    \/ Unwind

Spec == Init /\ [][Next]_vars

(***************************************************************************)
(* What the declarations say, for the properties below.                    *)
(***************************************************************************)
Range(seq) == {seq[i] : i \in 1..Len(seq)}

\* an invocation of a wrapped callable has just ended
Done == pc = "done" /\ frame.op = "decorator"

Declared(c) == InitAnnotations[c]

Annotated(p) == p.annotation # Empty

\* the declared parameter types of c, in declaration order
DeclaredParamTypes(c) ==
    LET ps == SelectSeq(Parameters(Params(c), Declared(c)), Annotated)
    IN  [i \in 1..Len(ps) |-> ps[i].annotation]

\* the declared return type of c, none declared meaning "expects None"
DeclaredReturn(c) ==
    IF "return" \in DOMAIN Declared(c) THEN Declared(c)["return"] ELSE NoneType

\* value conforms to the type description hint
Conforms(value, hint) ==
    IF hint.tag = "callable"
    THEN /\ value.ty = "function"
         /\ DeclaredParamTypes(value.id) = hint.args
         /\ DeclaredReturn(value.id) = hint.result
    ELSE isinstance(value, hint)

\* the arguments the invocation in the frame supplied, bound to their names
FrameBound == bind(Parameters(Params(frame.c), Declared(frame.c)),
                   frame.args, frame.kwargs)

\* the positions, among the supplied arguments, of those that violate their
\* declared type
Violators ==
    {i \in 1..Len(FrameBound.arguments) :
        /\ FrameBound.arguments[i].name \in DOMAIN Declared(frame.c)
        /\ ~Conforms(FrameBound.arguments[i].value,
                     Declared(frame.c)[FrameBound.arguments[i].name])}

FirstViolator == CHOOSE i \in Violators : \A j \in Violators : i <= j

\* the parameters the call leaves unfilled whose default violates their
\* declared type
BadDefaults ==
    {i \in 1..Len(Params(frame.c)) :
        /\ i > Len(frame.args)
        /\ Params(frame.c)[i].name \notin DOMAIN frame.kwargs
        /\ Params(frame.c)[i].has_default
        /\ Params(frame.c)[i].name \in DOMAIN Declared(frame.c)
        /\ ~Conforms(Params(frame.c)[i].default,
                     Declared(frame.c)[Params(frame.c)[i].name])}

ArgumentTypeMismatch ==
    /\ frame.kind = "raise"
    /\ frame.err.exc = "TypeError"
    /\ frame.err.origin = "check_arguments"
    /\ frame.phase = "check_arguments"

ReturnTypeMismatch ==
    /\ frame.kind = "raise"
    /\ frame.err.exc = "TypeError"
    /\ frame.err.origin = "check_return"
    /\ frame.phase = "check_return"

(***************************************************************************)
(* C1: when the body of a wrapped callable returns a value that does not   *)
(* conform to its declared return type, the invocation raises a Return     *)
(* Type Mismatch instead of returning the value, the body having run.      *)
(***************************************************************************)
C1_ReturnMismatchRaises ==
    (/\ Done
     /\ frame.body.kind = "return"
     /\ "return" \in DOMAIN Declared(frame.c)
     /\ ~Conforms(frame.body.value, DeclaredReturn(frame.c)))
    => ReturnTypeMismatch /\ frame.runs >= 1

(***************************************************************************)
(* C2: when a supplied argument does not conform to its declared parameter *)
(* type, the invocation raises an Argument Type Mismatch and the body is   *)
(* never executed.                                                         *)
(***************************************************************************)
C2_ViolationRaisesBeforeBody ==
    (Done /\ FrameBound.ok /\ Violators # {})
    => ArgumentTypeMismatch /\ frame.runs = 0 /\ frame.body = NoBody

(***************************************************************************)
(* C3: when every argument conforms to its declared parameter type, the    *)
(* checker raises nothing and the invocation returns exactly the value the *)
(* callable returned.                                                      *)
(***************************************************************************)
C3_ConformingCallIsTransparent ==
    (Done /\ FrameBound.ok /\ Violators = {})
    => /\ frame.phase \notin {"check_arguments", "check_return"}
       /\ frame.body.kind = "return"
          => frame.kind = "return" /\ frame.value = frame.body.value

(***************************************************************************)
(* C4: check_callable(candidate, expected) answers correct exactly when    *)
(* the candidate's declared parameter types equal expected's, element by   *)
(* element, and its declared return type equals expected's.                *)
(***************************************************************************)
C4_CallableConformsIffSignaturesEqual ==
    (pc = "done" /\ frame.op = "check_callable" /\ frame.exc = "none")
    => (frame.correct
        <=> /\ DeclaredParamTypes(frame.callable_.id) = frame.hint.args
            /\ DeclaredReturn(frame.callable_.id) = frame.hint.result)

(***************************************************************************)
(* C5: a supplied argument whose parameter has no declared type is never   *)
(* handed to check_type and never named by an Argument Type Mismatch; an   *)
(* invocation all of whose arguments are untyped passes check_arguments.   *)
(***************************************************************************)
\* the names of the supplied arguments whose parameter has no declared type
Untyped(arguments) ==
    {arguments[i].name : i \in 1..Len(arguments)} \ DOMAIN Declared(frame.c)

Supplied(arguments) == {arguments[i].name : i \in 1..Len(arguments)}

UntypedNeverChecked(arguments) ==
    /\ \A n \in Untyped(arguments) :
          n \notin Range(frame.matched) /\ frame.err.param # n
    /\ Untyped(arguments) = Supplied(arguments)
       => frame.phase # "check_arguments"

C5_UntypedNeverChecked ==
    (Done /\ FrameBound.ok) => UntypedNeverChecked(FrameBound.arguments)

C5_Witness ==
    /\ Done
    /\ frame.c = "untyped"
    /\ frame.args = <<Pi>>
    /\ frame.matched = <<>>
    /\ frame.runs = 1

(***************************************************************************)
(* C6: when the callable itself raises, the invocation raises exactly that *)
(* error, check_return is not run and no value is returned.                *)
(***************************************************************************)
C6_CallableErrorPropagates ==
    (Done /\ frame.body.kind = "raise")
    => /\ frame.kind = "raise"
       /\ frame.err = frame.body.err
       /\ frame.phase = "call"
       /\ ~frame.return_checked
       /\ frame.value = NoValue

C6_Witness ==
    /\ Done
    /\ frame.c = "boom"
    /\ frame.body.kind = "raise"
    /\ frame.err.exc = "ValueError"
    /\ frame.matched = <<"n">>

(***************************************************************************)
(* C7: a wrapped callable that declares no return type and returns None    *)
(* completes normally and returns None.                                    *)
(***************************************************************************)
C7_NoReturnTypeExpectsNone ==
    (/\ Done
     /\ "return" \notin DOMAIN Declared(frame.c)
     /\ frame.body.kind = "return"
     /\ frame.body.value = PyNone)
    => frame.kind = "return" /\ frame.value = PyNone

(***************************************************************************)
(* C8: when several supplied arguments violate their declared types, the   *)
(* invocation raises one Argument Type Mismatch that names the first       *)
(* violator in declaration order with its expected type, and no later      *)
(* parameter is handed to check_type.                                      *)
(***************************************************************************)
C8_FirstViolatorReported ==
    (Done /\ FrameBound.ok /\ Cardinality(Violators) >= 2)
    => /\ ArgumentTypeMismatch
       /\ frame.err.param = FrameBound.arguments[FirstViolator].name
       /\ frame.err.expected =
             Declared(frame.c)[FrameBound.arguments[FirstViolator].name]
       /\ \A j \in 1..Len(FrameBound.arguments) :
             j > FirstViolator
             => FrameBound.arguments[j].name \notin Range(frame.matched)

(***************************************************************************)
(* C9: a declared default that violates its parameter's declared type,     *)
(* left in place by the call, raises an Argument Type Mismatch before the  *)
(* callable runs.                                                          *)
(***************************************************************************)
C9_DefaultsAreChecked ==
    (Done /\ FrameBound.ok /\ BadDefaults # {})
    => ArgumentTypeMismatch /\ frame.runs = 0

(***************************************************************************)
(* C10: whatever invocations came before, and however they ended, an       *)
(* invocation's outcome is the one the same callable and arguments give in *)
(* a program that has made no call yet.                                    *)
(***************************************************************************)
View(o) == [kind |-> o.kind, value |-> o.value, err |-> o.err,
            phase |-> o.phase, matched |-> o.matched]

C10_OutcomeIndependentOfHistory ==
    Done => View(frame) = View(decorator(InitAnnotations, frame.c, frame.args,
                                         frame.kwargs))

C10_Witness ==
    /\ Done
    /\ prev = "raise"
    /\ counter > frame.runs
    /\ frame.c = "foobar"
    /\ frame.kind = "return"

====
